---- MODULE Spec2Model ----
(***************************************************************************)
(* KnowledgeGraphBuilder (app/services/knowledge_graph.py) as a state      *)
(* machine: one shared networkx MultiDiGraph, mutated by reset_graph,      *)
(* add_entities, add_relations, infer_relations_from_entities and          *)
(* build_from_document, and read by get_subgraph, stats and to_json.       *)
(*                                                                         *)
(* Python strings are sequences of one-character strings, so that the      *)
(* f-string and the strip() of _node_id are computed, not assumed.         *)
(* A dict is a sequence of entries in insertion order (entities) or a      *)
(* function (records, node attributes, meta); the empty dict is << >>.     *)
(***************************************************************************)
EXTENDS Integers, Sequences, FiniteSets, TLC

VARIABLES
    graph,    \* self.graph of the one KnowledgeGraphBuilder
    call,     \* the call that has just returned, with its arguments
    result,   \* its return value
    pre,      \* self.graph when it was made
    tasks     \* the calls or requests in progress, where several overlap

vars == <<graph, call, result, pre, tasks>>

-----------------------------------------------------------------------------
(* Python values *)

\* Python's None: a one-token sequence no character string can equal.
None == <<"<None>">>

Whitespace == {" "}

\* bool(v) for None and str values
Truthy(v) == v # None /\ v # <<>>

\* a or b
Or(a, b) == IF Truthy(a) THEN a ELSE b

\* str(v) as an f-string placeholder renders it
Format(v) == IF v = None THEN <<"N", "o", "n", "e">> ELSE v

RECURSIVE LStrip(_)
LStrip(s) ==
    IF s # <<>> /\ Head(s) \in Whitespace THEN LStrip(Tail(s)) ELSE s

RECURSIVE RStrip(_)
RStrip(s) ==
    IF s # <<>> /\ s[Len(s)] \in Whitespace
    THEN RStrip(SubSeq(s, 1, Len(s) - 1))
    ELSE s

\* str.strip()
Strip(s) == RStrip(LStrip(s))

\* dict.get(k) on a record / dict.get(k, default)
Get(d, k) == IF k \in DOMAIN d THEN d[k] ELSE None
GetOr(d, k, default) == IF k \in DOMAIN d THEN d[k] ELSE default

-----------------------------------------------------------------------------
(* String literals of the source *)

sCases    == <<"c", "a", "s", "e", "s">>
sStatutes == <<"s", "t", "a", "t", "u", "t", "e", "s">>
sCourts   == <<"c", "o", "u", "r", "t", "s">>
sParties  == <<"p", "a", "r", "t", "i", "e", "s">>
sDates    == <<"d", "a", "t", "e", "s">>

sCase     == <<"c", "a", "s", "e">>
sStatute  == <<"s", "t", "a", "t", "u", "t", "e">>
sCourt    == <<"c", "o", "u", "r", "t">>
sParty    == <<"p", "a", "r", "t", "y">>
sDate     == <<"d", "a", "t", "e">>

sCites     == <<"c", "i", "t", "e", "s">>
sHeardBy   == <<"h", "e", "a", "r", "d", "_", "b", "y">>
sPartyIn   == <<"p", "a", "r", "t", "y", "_", "i", "n">>
sDecidedOn == <<"d", "e", "c", "i", "d", "e", "d", "_", "o", "n">>

sUnknown  == <<"u", "n", "k", "n", "o", "w", "n">>

-----------------------------------------------------------------------------
(* The graph: nx.MultiDiGraph.  nodes is the _node dict in insertion order *)
(* (id and attribute dict), edges the edges in the order add_edge made     *)
(* them.                                                                   *)

EmptyGraph == [nodes |-> <<>>, edges |-> <<>>]

NodeIds(g) == {g.nodes[i].id : i \in 1..Len(g.nodes)}

has_node(g, n) == n \in NodeIds(g)

\* graph.nodes[n]: the attribute dict of node n
NodeData(g, n) == g.nodes[CHOOSE i \in 1..Len(g.nodes) : g.nodes[i].id = n].data

\* add_node(n, **attr) for a node that is not in the graph
add_node(g, n, attr) ==
    [g EXCEPT !.nodes = Append(g.nodes, [id |-> n, data |-> attr])]

\* (mutation: an edge that exists already is not added again)
add_edge_dedup(g, u, v, t) ==
    LET g1 == IF has_node(g, u) THEN g ELSE add_node(g, u, <<>>)
        g2 == IF has_node(g1, v) THEN g1 ELSE add_node(g1, v, <<>>)
        e  == [source |-> u, target |-> v, type |-> t]
    IN  IF \E i \in 1..Len(g.edges) : g.edges[i] = e
        THEN g2
        ELSE [g2 EXCEPT !.edges = Append(g2.edges, e)]

\* add_edge(u, v, type=t): creates u, then v, with no attributes when they
\* are missing, then appends the edge under a fresh key.
add_edge(g, u, v, t) ==
    LET g1 == IF has_node(g, u) THEN g ELSE add_node(g, u, <<>>)
        g2 == IF has_node(g1, v) THEN g1 ELSE add_node(g1, v, <<>>)
    IN  [g2 EXCEPT !.edges = Append(g2.edges,
                                    [source |-> u, target |-> v, type |-> t])]

\* f"{node_type}:{label}".strip()
_node_id(label, node_type) ==
    Strip(Format(node_type) \o <<":">> \o Format(label))

\* (mutation: meta keeps every field of the record)
Meta_all(item) == item

\* {k: v for k, v in item.items() if k not in {"text", "name"}}
Meta(item) == [k \in DOMAIN item \ {"text", "name"} |-> item[k]]

\* (mutation: a repeated insertion overwrites the node's attributes)
add_entity_overwrite(g, entity_type, item) ==
    LET name == Or(Get(item, "text"), Get(item, "name"))
        attr == [label |-> name, type |-> entity_type, meta |-> Meta(item)]
    IN  IF ~Truthy(name)
        THEN g
        ELSE LET nid == _node_id(name, entity_type)
             IN  IF ~has_node(g, nid)
                 THEN add_node(g, nid, attr)
                 ELSE [g EXCEPT !.nodes =
                         [i \in 1..Len(g.nodes) |->
                            IF g.nodes[i].id = nid
                            THEN [id |-> nid, data |-> attr]
                            ELSE g.nodes[i]]]

\* (mutation: a record without text and name is inserted all the same)
add_entity_keep_nameless(g, entity_type, item) ==
    LET name == Or(Get(item, "text"), Get(item, "name"))
        nid  == _node_id(name, entity_type)
    IN  IF ~has_node(g, nid)
        THEN add_node(g, nid,
                      [label |-> name, type |-> entity_type, meta |-> Meta(item)])
        ELSE g

\* the body of the inner loop of add_entities, for one item
add_entity(g, entity_type, item) ==
    LET name == Or(Get(item, "text"), Get(item, "name"))
    IN  IF ~Truthy(name)
        THEN g
        ELSE LET nid == _node_id(name, entity_type)
             IN  IF ~has_node(g, nid)
                 THEN add_node(g, nid, [label |-> name,
                                        type  |-> entity_type,
                                        meta  |-> Meta(item)])
                 ELSE g

RECURSIVE add_items(_, _, _)
add_items(g, entity_type, items) ==
    IF items = <<>>
    THEN g
    ELSE add_items(add_entity(g, entity_type, Head(items)),
                   entity_type, Tail(items))

\* add_entities: entities is the dict as its items() in insertion order
RECURSIVE add_entities(_, _)
add_entities(g, entities) ==
    IF entities = <<>>
    THEN g
    ELSE add_entities(add_items(g, Head(entities).k, Head(entities).v),
                      Tail(entities))

\* (mutation: a tuple whose endpoints are not both nodes is left out)
RECURSIVE add_relations_checked(_, _)
add_relations_checked(g, relations) ==
    IF relations = <<>>
    THEN g
    ELSE LET r == Head(relations)
         IN  add_relations_checked(
                 IF has_node(g, r[1]) /\ has_node(g, r[2])
                 THEN add_edge(g, r[1], r[2], r[3])
                 ELSE g,
                 Tail(relations))

\* add_relations: one add_edge per tuple, in order
RECURSIVE add_relations(_, _)
add_relations(g, relations) ==
    IF relations = <<>>
    THEN g
    ELSE LET r == Head(relations)
         IN  add_relations(add_edge(g, r[1], r[2], r[3]), Tail(relations))

\* entities.get(key, [])
EntitiesGet(entities, key) ==
    IF \E i \in 1..Len(entities) : entities[i].k = key
    THEN entities[CHOOSE i \in 1..Len(entities) : entities[i].k = key].v
    ELSE <<>>

\* (mutation: the endpoint ids use the plural bucket names)
EndpointId_plural(item, node_type) ==
    _node_id(Or(Get(item, "text"), Get(item, "name")), node_type \o <<"s">>)

\* self._node_id(x.get("text") or x.get("name"), node_type)
EndpointId(item, node_type) ==
    _node_id(Or(Get(item, "text"), Get(item, "name")), node_type)

\* (mutation: the party edge runs from the case to the party)
CaseEdges_party_forward(case, statutes, courts, parties, dates) ==
    LET case_node == EndpointId(case, sCase)
    IN  [i \in 1..Len(statutes) |->
            <<case_node, EndpointId(statutes[i], sStatute), sCites>>]
        \o [i \in 1..Len(courts) |->
            <<case_node, EndpointId(courts[i], sCourt), sHeardBy>>]
        \o [i \in 1..Len(parties) |->
            <<case_node, EndpointId(parties[i], sParty), sPartyIn>>]
        \o [i \in 1..Len(dates) |->
            <<case_node, EndpointId(dates[i], sDate), sDecidedOn>>]

\* the edges one iteration of `for case in cases` adds, in order
CaseEdges(case, statutes, courts, parties, dates) ==
    LET case_node == EndpointId(case, sCase)
    IN  [i \in 1..Len(statutes) |->
            <<case_node, EndpointId(statutes[i], sStatute), sCites>>]
        \o [i \in 1..Len(courts) |->
            <<case_node, EndpointId(courts[i], sCourt), sHeardBy>>]
        \o [i \in 1..Len(parties) |->
            <<EndpointId(parties[i], sParty), case_node, sPartyIn>>]
        \o [i \in 1..Len(dates) |->
            <<case_node, EndpointId(dates[i], sDate), sDecidedOn>>]

RECURSIVE InferredEdges(_, _, _, _, _)
InferredEdges(cases, statutes, courts, parties, dates) ==
    IF cases = <<>>
    THEN <<>>
    ELSE CaseEdges(Head(cases), statutes, courts, parties, dates)
         \o InferredEdges(Tail(cases), statutes, courts, parties, dates)

\* infer_relations_from_entities: the add_edge calls of the nested loops
infer_relations_from_entities(g, entities) ==
    add_relations(g, InferredEdges(EntitiesGet(entities, sCases),
                                   EntitiesGet(entities, sStatutes),
                                   EntitiesGet(entities, sCourts),
                                   EntitiesGet(entities, sParties),
                                   EntitiesGet(entities, sDates)))

\* (mutation: a reset that keeps the graph)
reset_graph_keep(g) == g

\* reset_graph: self.graph = nx.MultiDiGraph()
\* (mutation: reset_graph forgets the nodes and keeps the edges)
reset_graph_keep_edges(g) == [g EXCEPT !.nodes = <<>>]

reset_graph(g) == EmptyGraph

-----------------------------------------------------------------------------
(* Reading the graph *)

\* graph.edges(data=True): by source in node order, then by target in the
\* order of the first edge to it, then by key (insertion order)
RECURSIVE Targets(_, _)
Targets(es, seen) ==
    IF es = <<>>
    THEN <<>>
    ELSE IF Head(es).target \in seen
         THEN Targets(Tail(es), seen)
         ELSE <<Head(es).target>>
              \o Targets(Tail(es), seen \cup {Head(es).target})

RECURSIVE Concat(_)
Concat(ss) == IF ss = <<>> THEN <<>> ELSE Head(ss) \o Concat(Tail(ss))

\* (mutation: parallel edges are listed once)
EdgesFrom_simple(g, u) ==
    LET out == SelectSeq(g.edges, LAMBDA e : e.source = u)
        ts  == Targets(out, {})
    IN  [i \in 1..Len(ts) |->
            out[CHOOSE k \in 1..Len(out) :
                   /\ out[k].target = ts[i]
                   /\ \A m \in 1..(k - 1) : out[m].target # ts[i]]]

EdgesFrom(g, u) ==
    LET out == SelectSeq(g.edges, LAMBDA e : e.source = u)
        ts  == Targets(out, {})
    IN  Concat([i \in 1..Len(ts) |->
                    SelectSeq(out, LAMBDA e : e.target = ts[i])])

EdgeList(g) == Concat([i \in 1..Len(g.nodes) |-> EdgesFrom(g, g.nodes[i].id)])

number_of_nodes(g) == Len(g.nodes)
number_of_edges(g) == Len(g.edges)

\* (mutation: a traversal that follows edges forward only)
predecessors_none(g, n) == {}

predecessors(g, n) ==
    {g.edges[i].source : i \in {j \in 1..Len(g.edges) : g.edges[j].target = n}}
successors(g, n) ==
    {g.edges[i].target : i \in {j \in 1..Len(g.edges) : g.edges[j].source = n}}

\* (mutation: edges kept when their source alone is in the node set)
subgraph_by_source(g, nodes) ==
    [nodes |-> SelectSeq(g.nodes, LAMBDA n : n.id \in nodes),
     edges |-> SelectSeq(g.edges, LAMBDA e : e.source \in nodes)]

\* graph.subgraph(nodes).copy()
subgraph(g, nodes) ==
    [nodes |-> SelectSeq(g.nodes, LAMBDA n : n.id \in nodes),
     edges |-> SelectSeq(g.edges,
                         LAMBDA e : e.source \in nodes /\ e.target \in nodes)]

\* (mutation: the links are reported target first)
to_json_reversed(self_graph, g) ==
    LET gr == IF g = <<>> \/ number_of_nodes(g[1]) = 0 THEN self_graph ELSE g[1]
        es == EdgeList(gr)
    IN  [nodes |-> [i \in 1..Len(gr.nodes) |->
                      [id    |-> gr.nodes[i].id,
                       label |-> Get(gr.nodes[i].data, "label"),
                       type  |-> Get(gr.nodes[i].data, "type"),
                       meta  |-> GetOr(gr.nodes[i].data, "meta", <<>>)]],
         links |-> [i \in 1..Len(es) |->
                      [source |-> es[i].target,
                       target |-> es[i].source,
                       type   |-> es[i].type]]]

\* to_json(g): g is << >> when the argument is left out (None), else <<the
\* graph>>.  `g or self.graph`: a graph with no node is falsy.
to_json(self_graph, g) ==
    LET gr == IF g = <<>> \/ number_of_nodes(g[1]) = 0 THEN self_graph ELSE g[1]
        es == EdgeList(gr)
    IN  [nodes |-> [i \in 1..Len(gr.nodes) |->
                      [id    |-> gr.nodes[i].id,
                       label |-> Get(gr.nodes[i].data, "label"),
                       type  |-> Get(gr.nodes[i].data, "type"),
                       meta  |-> GetOr(gr.nodes[i].data, "meta", <<>>)]],
         links |-> [i \in 1..Len(es) |->
                      [source |-> es[i].source,
                       target |-> es[i].target,
                       type   |-> es[i].type]]]

\* _nodes_by_type
_nodes_by_type(g) ==
    LET T(i) == GetOr(g.nodes[i].data, "type", sUnknown)
    IN  [t \in {T(i) : i \in 1..Len(g.nodes)} |->
            Cardinality({i \in 1..Len(g.nodes) : T(i) = t})]

stats(g) ==
    [nodes   |-> number_of_nodes(g),
     edges   |-> number_of_edges(g),
     by_type |-> _nodes_by_type(g)]

\* (mutation: node_type is not compared)
center_candidates_any_type(g, center_node_label, node_type) ==
    SelectSeq(g.nodes, LAMBDA n : Get(n.data, "label") = center_node_label)

\* center_candidates, in node order
center_candidates(g, center_node_label, node_type) ==
    SelectSeq(g.nodes,
              LAMBDA n : /\ Get(n.data, "label") = center_node_label
                         /\ (node_type = None \/ Get(n.data, "type") = node_type))

\* (mutation: nodes is overwritten with the frontier instead of joined)
RECURSIVE expand_forget(_, _, _, _)
expand_forget(g, nodes, frontier, rounds) ==
    IF rounds <= 0
    THEN nodes
    ELSE LET next_frontier ==
                 UNION {predecessors(g, n) \cup successors(g, n) : n \in frontier}
         IN  expand_forget(g, next_frontier, next_frontier, rounds - 1)

\* (mutation: a negative depth runs as many rounds as its absolute value)
RECURSIVE expand_abs(_, _, _, _)
expand_abs(g, nodes, frontier, rounds) ==
    IF rounds = 0
    THEN nodes
    ELSE LET next ==
                 UNION {predecessors(g, n) \cup successors(g, n) : n \in frontier}
         IN  expand_abs(g, nodes \cup next, next,
                        IF rounds < 0 THEN 0 - rounds - 1 ELSE rounds - 1)

\* the loop `for _ in range(depth)`; rounds <= 0 runs no iteration
RECURSIVE expand(_, _, _, _)
expand(g, nodes, frontier, rounds) ==
    IF rounds <= 0
    THEN nodes
    ELSE LET next_frontier ==
                 UNION {predecessors(g, n) \cup successors(g, n) : n \in frontier}
         IN  expand(g, nodes \cup next_frontier, next_frontier, rounds - 1)

\* (mutation: the loop runs one round more than depth)
subgraph_nodes_one_more(g, center, depth) ==
    expand(g, {center}, {center}, depth + 1)

\* next_frontier after one pass of the loop body over frontier
next_frontier(g, frontier) ==
    UNION {predecessors(g, n) \cup successors(g, n) : n \in frontier}

\* frontier after k passes of the loop, from frontier = {center}
RECURSIVE frontier_at(_, _, _)
frontier_at(g, center, k) ==
    IF k <= 0 THEN {center} ELSE next_frontier(g, frontier_at(g, center, k - 1))

\* nodes after k passes of the loop, from nodes = {center}
RECURSIVE nodes_at(_, _, _)
nodes_at(g, center, k) ==
    IF k <= 0
    THEN {center}
    ELSE nodes_at(g, center, k - 1) \cup frontier_at(g, center, k)

\* the node set get_subgraph passes to graph.subgraph, for a found center
subgraph_nodes(g, center, depth) == expand(g, {center}, {center}, depth)

get_subgraph(g, center_node_label, node_type, depth) ==
    LET cands == center_candidates(g, center_node_label, node_type)
    IN  IF cands = <<>>
        THEN [nodes |-> <<>>, links |-> <<>>]
        ELSE to_json(g, <<subgraph(g, subgraph_nodes(g, cands[1].id, depth))>>)

\* build_from_document: reset_graph, add_entities, infer_relations, to_json
build_graph(g, document_id, entities) ==
    infer_relations_from_entities(add_entities(reset_graph(g), entities),
                                  entities)

build_from_document(g, document_id, entities) ==
    to_json(build_graph(g, document_id, entities), <<>>)

-----------------------------------------------------------------------------
(* POST /knowledge-graph/build *)

\* KnowledgeGraphRequest.depth: int = 2
DefaultDepth == 2

\* request.document_id or "doc"
sDoc == <<"d", "o", "c">>

\* `if request.entities:` on an Optional[Dict]: entities is << >> for None
\* and <<the mapping>> otherwise; None and the empty mapping are falsy
EntitiesTruthy(entities) == entities # <<>> /\ entities[1] # <<>>

\* build_knowledge_graph(request) on the shared engine: the graph it leaves
\* and the value it returns
build_knowledge_graph(g, request) ==
    IF EntitiesTruthy(request.entities)
    THEN [graph  |-> build_graph(g, Or(request.document_id, sDoc),
                                 request.entities[1]),
          result |-> build_from_document(g, Or(request.document_id, sDoc),
                                         request.entities[1])]
    ELSE IF Truthy(request.center_node_label)
    THEN [graph  |-> g,
          result |-> get_subgraph(g, request.center_node_label,
                                  request.node_type, request.depth)]
    ELSE [graph |-> g, result |-> stats(g)]

-----------------------------------------------------------------------------
(* Bounds and the inputs the calls draw from *)

MaxItems   == 2    \* records per bucket in a cross-product mapping
MaxRecords == 3    \* records in a cross-product mapping
MaxNodes   == 3    \* add_entities, add_relations and infer_relations_from_entities
MaxEdges   == 2    \*   are explored while the graph stays within these sizes
MaxDepth   == 2    \* get_subgraph depths are -1..MaxDepth

sA   == <<"A">>
sB   == <<"B">>
sAsp == <<"A", " ">>

\* entity records
rA     == [text |-> sA]
rA1    == [text |-> sA, confidence |-> 1]
rB     == [name |-> sB, confidence |-> 2]
rAsp   == [text |-> sAsp]
rNone  == [confidence |-> 3]
rEmpty == [text |-> <<>>, name |-> <<>>]

Records == {rA, rA1, rB, rAsp, rNone, rEmpty}

\* the five buckets infer_relations_from_entities reads, in the order the
\* mappings below list them
Buckets == <<sCases, sStatutes, sCourts, sParties, sDates>>

\* a bucket of n records holds the first n of these
Pool == <<rA, rB, rA1, rAsp>>

Min(a, b) == IF a < b THEN a ELSE b

Sum5(n) == n[1] + n[2] + n[3] + n[4] + n[5]

\* the mapping with n[i] records under Buckets[i]; empty buckets are absent
CrossMapping(n) ==
    LET present == SelectSeq(<<1, 2, 3, 4, 5>>, LAMBDA i : n[i] > 0)
    IN  [j \in 1..Len(present) |->
            [k |-> Buckets[present[j]],
             v |-> SubSeq(Pool, 1, n[present[j]])]]

\* cases with at least one other bucket, or (no case) at most one record
CrossMappings ==
    {CrossMapping(n) :
        n \in {m \in [1..5 -> 0..Min(MaxItems, Len(Pool))] :
                  /\ Sum5(m) <= MaxRecords
                  /\ \/ m[1] >= 1 /\ Sum5(m) > m[1]
                     \/ m[1] = 0 /\ Sum5(m) <= 1}}

\* one bucket: "cases" with rA and a second record, or the singular "case"
SingleMappings ==
    {<<[k |-> sCases, v |-> <<rA, r>>]>> : r \in Records}
    \cup {<<[k |-> sCase, v |-> <<rA>>]>>}

\* a case without text and name, or with both empty, that meets a statute;
\* and a record under the empty key
OddMappings ==
    {<<[k |-> sCases, v |-> <<rNone>>], [k |-> sStatutes, v |-> <<rA>>]>>,
     <<[k |-> sCases, v |-> <<rEmpty>>], [k |-> sStatutes, v |-> <<rA>>]>>,
     <<[k |-> <<>>, v |-> <<rA>>]>>}

\* build_from_document is explored on all of these
EntityInputs == CrossMappings \cup SingleMappings \cup OddMappings

\* add_entities on these
AddInputs ==
    {<<[k |-> sCases, v |-> <<rA>>]>>,
     <<[k |-> sCases, v |-> <<rA1>>]>>,
     <<[k |-> sCases, v |-> <<rA, rA1>>]>>,
     <<[k |-> sCases, v |-> <<rNone, rA>>]>>}

\* infer_relations_from_entities on these
InferInputs ==
    {CrossMapping(<<1, 1, 0, 0, 0>>), <<[k |-> sCase, v |-> <<rA>>]>>}

\* build_from_document(document_id, entities): every mapping under "doc",
\* the mappings of add_entities under a second id as well
BuildInputs ==
    {<<sDoc, e>> : e \in EntityInputs}
    \cup {<<<<"d", "2">>, e>> : e \in AddInputs}

\* add_relations between an id add_entities makes and one
\* infer_relations_from_entities makes: one tuple, or the same tuple twice
idCasesA == _node_id(sA, sCases)
idCaseA  == _node_id(sA, sCase)

RelationTuples ==
    {<<idCasesA, idCaseA, sCites>>, <<idCaseA, idCasesA, sCites>>,
     <<idCasesA, idCasesA, sCites>>}

RelationInputs ==
    {<<t>> : t \in RelationTuples}
    \cup {<<<<idCasesA, idCaseA, sCites>>, <<idCasesA, idCaseA, sCites>>>>}

\* request bodies: entities left out, empty, or given; with and without a
\* center label
Request(document_id, entities, center_node_label) ==
    [document_id |-> document_id, entities |-> entities,
     center_node_label |-> center_node_label, node_type |-> None,
     depth |-> DefaultDepth]

RequestInputs ==
    {Request(None, <<>>, None),
     Request(None, <<>>, sA),
     Request(None, << <<>> >>, None),
     Request(None, << <<>> >>, sA),
     [Request(None, <<>>, sA) EXCEPT !.depth = 0 - 1],
     Request(None, <<CrossMapping(<<1, 1, 0, 0, 0>>)>>, None),
     Request(<<"d", "2">>, <<<<[k |-> sCases, v |-> <<rA1>>]>>>>, sA)}

\* graphs a caller hands to to_json: the graph without nodes, and the
\* subgraph of the first node of the engine's graph
SuppliedGraphs(g) ==
    {EmptyGraph}
    \cup {subgraph(g, {g.nodes[i].id}) : i \in {j \in 1..Len(g.nodes) : j = 1}}

LabelInputs == {sA, sB}
TypeInputs  == {None, sCases}
DepthInputs == (0 - 1)..MaxDepth

WithinBounds(g) ==
    number_of_nodes(g) <= MaxNodes /\ number_of_edges(g) <= MaxEdges

-----------------------------------------------------------------------------
(* The calls.  call is the call that has just returned ([op |-> "idle"]    *)
(* between calls), result its return value, pre the graph it started from. *)

Idle == [op |-> "idle"]

Init ==
    /\ graph = EmptyGraph
    /\ call = Idle
    /\ result = None
    /\ pre = EmptyGraph
    /\ tasks = <<>>

ResetGraph ==
    /\ call = Idle
    /\ graph' = reset_graph(graph)
    /\ call' = [op |-> "reset_graph"]
    /\ result' = None
    /\ pre' = graph
    /\ UNCHANGED tasks

AddEntities ==
    /\ call = Idle
    /\ \E entities \in AddInputs :
          /\ WithinBounds(add_entities(graph, entities))
          /\ graph' = add_entities(graph, entities)
          /\ call' = [op |-> "add_entities", entities |-> entities]
    /\ result' = None
    /\ pre' = graph
    /\ UNCHANGED tasks

AddRelations ==
    /\ call = Idle
    /\ \E relations \in RelationInputs :
          /\ WithinBounds(add_relations(graph, relations))
          /\ graph' = add_relations(graph, relations)
          /\ call' = [op |-> "add_relations", relations |-> relations]
    /\ result' = None
    /\ pre' = graph
    /\ UNCHANGED tasks

InferRelations ==
    /\ call = Idle
    /\ \E entities \in InferInputs :
          /\ WithinBounds(infer_relations_from_entities(graph, entities))
          /\ graph' = infer_relations_from_entities(graph, entities)
          /\ call' = [op |-> "infer_relations_from_entities",
                      entities |-> entities]
    /\ result' = None
    /\ pre' = graph
    /\ UNCHANGED tasks

BuildFromDocument ==
    /\ call = Idle
    /\ \E args \in BuildInputs :
          /\ graph' = build_graph(graph, args[1], args[2])
          /\ result' = build_from_document(graph, args[1], args[2])
          /\ call' = [op |-> "build_from_document",
                      document_id |-> args[1], entities |-> args[2]]
    /\ pre' = graph
    /\ UNCHANGED tasks

\* (mutation: get_subgraph keeps the subgraph as the engine's graph)
GetSubgraph_in_place ==
    /\ call = Idle
    /\ \E label \in LabelInputs, type \in TypeInputs, depth \in DepthInputs :
          /\ result' = get_subgraph(graph, label, type, depth)
          /\ graph' = LET cands == center_candidates(graph, label, type)
                      IN  IF cands = <<>>
                          THEN graph
                          ELSE subgraph(graph,
                                        subgraph_nodes(graph, cands[1].id, depth))
          /\ call' = [op |-> "get_subgraph", center_node_label |-> label,
                      node_type |-> type, depth |-> depth]
    /\ pre' = graph
    /\ UNCHANGED tasks

GetSubgraph ==
    /\ call = Idle
    /\ \E label \in LabelInputs, type \in TypeInputs, depth \in DepthInputs :
          /\ result' = get_subgraph(graph, label, type, depth)
          /\ call' = [op |-> "get_subgraph", center_node_label |-> label,
                      node_type |-> type, depth |-> depth]
    /\ pre' = graph
    /\ UNCHANGED graph
    /\ UNCHANGED tasks

Stats ==
    /\ call = Idle
    /\ result' = stats(graph)
    /\ call' = [op |-> "stats"]
    /\ pre' = graph
    /\ UNCHANGED graph
    /\ UNCHANGED tasks

ToJson ==
    /\ call = Idle
    /\ result' = to_json(graph, <<>>)
    /\ call' = [op |-> "to_json"]
    /\ pre' = graph
    /\ UNCHANGED graph
    /\ UNCHANGED tasks

BuildKnowledgeGraph ==
    /\ call = Idle
    /\ \E request \in RequestInputs :
          /\ graph' = build_knowledge_graph(graph, request).graph
          /\ result' = build_knowledge_graph(graph, request).result
          /\ call' = [op |-> "build_knowledge_graph", request |-> request]
    /\ pre' = graph
    /\ UNCHANGED tasks

\* to_json(g) with a graph supplied by the caller
ToJsonOf ==
    /\ call = Idle
    /\ \E g \in SuppliedGraphs(graph) :
          /\ result' = to_json(graph, <<g>>)
          /\ call' = [op |-> "to_json(g)", g |-> g]
    /\ pre' = graph
    /\ UNCHANGED graph
    /\ UNCHANGED tasks

\* the caller drops the returned value; the engine is ready for the next call
Return ==
    /\ call # Idle
    /\ call' = Idle
    /\ result' = None
    /\ pre' = graph
    /\ UNCHANGED graph
    /\ UNCHANGED tasks

Next ==
    \/ ResetGraph
    \/ AddEntities
    \/ AddRelations
    \/ InferRelations
    \/ BuildFromDocument
    \/ GetSubgraph
    \/ Stats
    \/ ToJson
    \/ BuildKnowledgeGraph
    \/ ToJsonOf
    \/ Return

Spec == Init /\ [][Next]_vars

-----------------------------------------------------------------------------
(* Vocabulary of the properties *)

IsBuild    == call.op = "build_from_document"
IsAdd      == call.op = "add_entities"
IsInfer    == call.op = "infer_relations_from_entities"
IsSubgraph == call.op = "get_subgraph"

\* nodes that carry a label: the ones add_node(..., label=, type=, meta=) made
LabelledIds(g) ==
    {g.nodes[i].id : i \in {j \in 1..Len(g.nodes) : "label" \in DOMAIN g.nodes[j].data}}

\* occurrences of x in a sequence
Count(seq, x) == Cardinality({i \in 1..Len(seq) : seq[i] = x})

\* two sequences hold the same elements the same number of times
SameBag(s1, s2) ==
    /\ Len(s1) = Len(s2)
    /\ \A i \in 1..Len(s1) : Count(s1, s1[i]) = Count(s2, s1[i])

\* u and v are joined by an edge, in either direction
Adjacent(g, u, v) ==
    \E i \in 1..Len(g.edges) :
        \/ g.edges[i].source = u /\ g.edges[i].target = v
        \/ g.edges[i].source = v /\ g.edges[i].target = u

\* the nodes at undirected distance at most k from c
RECURSIVE Ball(_, _, _)
Ball(g, c, k) ==
    IF k = 0
    THEN {c}
    ELSE LET B == Ball(g, c, k - 1)
         IN  B \cup {n \in NodeIds(g) : \E m \in B : Adjacent(g, m, n)}

ResultIds == {result.nodes[i].id : i \in 1..Len(result.nodes)}

\* the center get_subgraph chose for the call that has returned
Candidates ==
    center_candidates(pre, call.center_node_label, call.node_type)

-----------------------------------------------------------------------------
(* C1 *)

\* C1: after build_from_document(entities) the source and the target of
\* every edge are nodes add_entities created from the entity records, i.e.
\* nodes that carry a label and a type.
C1_EdgesLinkEntityNodes ==
    IsBuild =>
        \A i \in 1..Len(graph.edges) :
            /\ graph.edges[i].source \in LabelledIds(graph)
            /\ graph.edges[i].target \in LabelledIds(graph)

-----------------------------------------------------------------------------
(* C2 *)

\* C2: get_subgraph with depth >= 0 and an existing center returns as its
\* node set exactly the nodes at undirected distance at most depth from the
\* center.
C2_SubgraphNodesAreBall ==
    (IsSubgraph /\ call.depth >= 0 /\ Candidates # <<>>) =>
        ResultIds = Ball(pre, Candidates[1].id, call.depth)

\* a call of depth 1 whose center has a neighbour and a node two steps away
C2_Witness ==
    /\ IsSubgraph /\ call.depth = 1 /\ Candidates # <<>>
    /\ Cardinality(ResultIds) = 2
    /\ Ball(pre, Candidates[1].id, 2) # Ball(pre, Candidates[1].id, 1)
    /\ ResultIds = Ball(pre, Candidates[1].id, 1)

-----------------------------------------------------------------------------
(* C3 *)

\* the edges of g with both endpoints in ids, as link records
InducedLinks(g, ids) ==
    SelectSeq(g.edges, LAMBDA e : e.source \in ids /\ e.target \in ids)

\* C3: the links get_subgraph returns are exactly the edges of the full
\* graph with both endpoints in the returned node set, parallel edges
\* included, and no other edge.
C3_SubgraphLinksAreInduced ==
    IsSubgraph => SameBag(result.links, InducedLinks(pre, ResultIds))

\* a result that keeps an edge and leaves out one that leads out of the
\* node set
C3_Witness ==
    /\ IsSubgraph
    /\ Len(result.links) >= 1
    /\ Len(result.links) < Len(pre.edges)
    /\ SameBag(result.links, InducedLinks(pre, ResultIds))

-----------------------------------------------------------------------------
(* C4 *)

\* reset_graph; add_entities; infer_relations_from_entities on the graph of
\* a new KnowledgeGraphBuilder
FreshBuild(entities) ==
    infer_relations_from_entities(add_entities(EmptyGraph, entities), entities)

\* C4: build_from_document returns the snapshot, and leaves the graph, that
\* reset_graph; add_entities; infer_relations_from_entities; to_json give on
\* a fresh engine, whatever the graph was before and whatever document_id
\* is.
C4_BuildIsFreshBuild ==
    IsBuild =>
        LET fresh == FreshBuild(call.entities)
        IN  /\ graph = fresh
            /\ result = to_json(fresh, <<>>)

\* a build under the second document id on a graph holding a node the new
\* entities do not produce
C4_Witness ==
    /\ IsBuild
    /\ call.document_id = <<"d", "2">>
    /\ NodeIds(pre) \ NodeIds(graph) # {}
    /\ number_of_edges(pre) > 0
    /\ graph = FreshBuild(call.entities)

-----------------------------------------------------------------------------
(* Entity records of the call that has returned *)

\* the records of a mapping with the key each is listed under, in order
RECURSIVE Flatten(_)
Flatten(entities) ==
    IF entities = <<>>
    THEN <<>>
    ELSE [i \in 1..Len(Head(entities).v) |->
             [type |-> Head(entities).k, item |-> Head(entities).v[i]]]
         \o Flatten(Tail(entities))

\* the display text of a record: text, else name
DisplayText(item) ==
    IF "text" \in DOMAIN item /\ item.text # <<>>
    THEN item.text
    ELSE IF "name" \in DOMAIN item /\ item.name # <<>> THEN item.name ELSE <<>>

\* the records of the call that have a display text
NamedRecords ==
    SelectSeq(Flatten(call.entities), LAMBDA r : DisplayText(r.item) # <<>>)

\* the (type, label) pairs the labelled nodes of g carry
Pairs(g) ==
    {<<g.nodes[i].data.type, g.nodes[i].data.label>> :
        i \in {j \in 1..Len(g.nodes) : "label" \in DOMAIN g.nodes[j].data}}

\* the graph add_entities started from: pre, or the reset graph in a build
Base == IF IsBuild THEN EmptyGraph ELSE pre

\* the pairs of the records recs that the graph base does not hold yet
NewPairs(recs, base) ==
    {<<recs[i].type, DisplayText(recs[i].item)>> : i \in 1..Len(recs)}
        \ Pairs(base)

\* the first of the records recs with the pair (t, l)
FirstRecord(recs, t, l) ==
    recs[CHOOSE i \in 1..Len(recs) :
        /\ recs[i].type = t /\ DisplayText(recs[i].item) = l
        /\ \A j \in 1..(i - 1) :
              ~(recs[j].type = t /\ DisplayText(recs[j].item) = l)]

-----------------------------------------------------------------------------
(* C5 *)

\* C5: inserting a (type, text) pair again through add_entities, in the same
\* call or a later one, adds no node (the node count grows by at most the
\* number of new pairs), and the node keeps the meta of the first insertion.
C5_SecondInsertionIsNoOp ==
    (IsAdd \/ IsBuild) =>
        LET base == Base
            recs == NamedRecords
            new  == Cardinality(NewPairs(recs, base))
            old  == LabelledIds(base)
        IN  /\ \A i \in 1..Len(base.nodes) :
                  "label" \in DOMAIN base.nodes[i].data =>
                      NodeData(graph, base.nodes[i].id) = base.nodes[i].data
            /\ Cardinality(LabelledIds(graph)) <= Cardinality(old) + new
            /\ IsAdd => number_of_nodes(graph) <= number_of_nodes(pre) + new
            /\ \A i \in 1..Len(graph.nodes) :
                  LET n == graph.nodes[i]
                  IN  ("label" \in DOMAIN n.data /\ n.id \notin old) =>
                          n.data.meta
                            = Meta(FirstRecord(recs, n.data.type, n.data.label).item)

\* a later add_entities call brings a pair the graph holds, with another meta
C5_Witness ==
    /\ IsAdd
    /\ number_of_nodes(graph) = number_of_nodes(pre)
    /\ \E i \in 1..Len(NamedRecords) :
          LET r == NamedRecords[i]
          IN  /\ <<r.type, DisplayText(r.item)>> \in Pairs(pre)
              /\ NodeData(graph, _node_id(DisplayText(r.item), r.type)).meta
                    # Meta(r.item)

-----------------------------------------------------------------------------
(* C6 *)

\* the number of records listed under key
BucketSize(entities, key) ==
    Cardinality(UNION {{<<i, j>> : j \in 1..Len(entities[i].v)} :
                          i \in {n \in 1..Len(entities) : entities[n].k = key}})

\* C * (S + Co + P + D)
CrossProduct(entities) ==
    BucketSize(entities, sCases)
        * (BucketSize(entities, sStatutes) + BucketSize(entities, sCourts)
           + BucketSize(entities, sParties) + BucketSize(entities, sDates))

\* C6: infer_relations_from_entities adds exactly C*(S+Co+P+D) edges,
\* whatever the graph held before (in a build: to the graph without edges
\* that add_entities leaves).
C6_InferAddsCrossProduct ==
    /\ IsInfer =>
          number_of_edges(graph)
              = number_of_edges(pre) + CrossProduct(call.entities)
    /\ IsBuild => number_of_edges(graph) = CrossProduct(call.entities)

\* infer_relations_from_entities adds an edge the graph already holds
C6_Witness ==
    /\ IsInfer
    /\ CrossProduct(call.entities) >= 1
    /\ number_of_edges(pre) >= 1
    /\ \E i \in 1..Len(pre.edges) : pre.edges[i] = graph.edges[Len(graph.edges)]
    /\ number_of_edges(graph) = number_of_edges(pre) + CrossProduct(call.entities)

-----------------------------------------------------------------------------
(* C7 *)

\* the edges the returned call appended
NewEdges ==
    IF IsBuild
    THEN graph.edges
    ELSE SubSeq(graph.edges, Len(pre.edges) + 1, Len(graph.edges))

\* how many (case, other) record pairs call for the edge e
PairCount(e, entities) ==
    LET cases   == EntitiesGet(entities, sCases)
        arrows(others, node_type, edge_type, outward) ==
            Cardinality({<<i, j>> \in (1..Len(cases)) \X (1..Len(others)) :
                LET c == EndpointId(cases[i], sCase)
                    o == EndpointId(others[j], node_type)
                IN  e = IF outward
                        THEN [source |-> c, target |-> o, type |-> edge_type]
                        ELSE [source |-> o, target |-> c, type |-> edge_type]})
    IN  arrows(EntitiesGet(entities, sStatutes), sStatute, sCites, TRUE)
        + arrows(EntitiesGet(entities, sCourts), sCourt, sHeardBy, TRUE)
        + arrows(EntitiesGet(entities, sParties), sParty, sPartyIn, FALSE)
        + arrows(EntitiesGet(entities, sDates), sDate, sDecidedOn, TRUE)

\* C7: inference appends exactly one edge per (case, statute) pair
\* case -> statute "cites", per (case, court) pair case -> court "heard_by",
\* per (case, party) pair party -> case "party_in", per (case, date) pair
\* case -> date "decided_on", every endpoint id built with the singular
\* type; it appends nothing else and keeps the earlier edges.
C7_InferredEdgeDirections ==
    (IsInfer \/ IsBuild) =>
        /\ IsInfer => SubSeq(graph.edges, 1, Len(pre.edges)) = pre.edges
        /\ Len(NewEdges) = CrossProduct(call.entities)
        /\ \A i \in 1..Len(NewEdges) :
              Count(NewEdges, NewEdges[i]) = PairCount(NewEdges[i], call.entities)

\* a build with cases, statutes and parties: edges out of and into a case
C7_Witness ==
    /\ IsBuild
    /\ \E i, j \in 1..Len(graph.edges) :
          /\ graph.edges[i].type = sCites
          /\ graph.edges[j].type = sPartyIn
          /\ graph.edges[i].source = graph.edges[j].target

-----------------------------------------------------------------------------
(* C8 *)

\* C8: every node carries a label and a type, and its id is the type, a
\* colon and the label.
C8_NodeIdIsTypeColonLabel ==
    \A i \in 1..Len(graph.nodes) :
        LET n == graph.nodes[i]
        IN  /\ "label" \in DOMAIN n.data
            /\ "type" \in DOMAIN n.data
            /\ n.id = n.data.type \o <<":">> \o n.data.label

-----------------------------------------------------------------------------
(* C9 *)

\* C9: after add_entities, every record with a display text has a node
\* with its own (type, text) pair, so only records with the same pair share
\* a node: the labelled nodes grow by the number of new pairs whose id is
\* not taken.
C9_DistinctPairsDistinctNodes ==
    (IsAdd \/ IsBuild) =>
        LET base == Base
            recs == NamedRecords
            held == Pairs(graph)
        IN  \A i \in 1..Len(recs) :
                \/ <<recs[i].type, DisplayText(recs[i].item)>> \in held
                \/ \E j \in 1..Len(base.nodes) :
                      /\ "label" \notin DOMAIN base.nodes[j].data
                      /\ base.nodes[j].id
                            = recs[i].type \o <<":">> \o DisplayText(recs[i].item)

-----------------------------------------------------------------------------
(* C10 *)

\* C10: between calls (and every graph is reached between calls) the node
\* and edge counts of stats() are the lengths of the nodes and links lists
\* of to_json(), parallel edges counted one by one, and what either call
\* returned agrees with the other computed on the current graph.
C10_StatsMatchSnapshot ==
    /\ call = Idle =>
          /\ stats(graph).nodes = Len(to_json(graph, <<>>).nodes)
          /\ stats(graph).edges = Len(to_json(graph, <<>>).links)
    /\ call.op = "stats" =>
          /\ result.nodes = Len(to_json(graph, <<>>).nodes)
          /\ result.edges = Len(to_json(graph, <<>>).links)
    /\ call.op = "to_json" =>
          /\ Len(result.nodes) = stats(graph).nodes
          /\ Len(result.links) = stats(graph).edges

\* stats() has returned on a graph with two parallel edges
C10_Witness ==
    /\ call.op = "stats"
    /\ result.nodes >= 2
    /\ result.edges = 2
    /\ graph.edges[1] = graph.edges[2]

-----------------------------------------------------------------------------
(* C11 *)

\* a snapshot read back: one node per entry of nodes, one edge per link
FromJson(snapshot) ==
    [nodes |-> [i \in 1..Len(snapshot.nodes) |->
                  [id   |-> snapshot.nodes[i].id,
                   data |-> [label |-> snapshot.nodes[i].label,
                             type  |-> snapshot.nodes[i].type,
                             meta  |-> snapshot.nodes[i].meta]]],
     edges |-> [i \in 1..Len(snapshot.links) |->
                  [source |-> snapshot.links[i].source,
                   target |-> snapshot.links[i].target,
                   type   |-> snapshot.links[i].type]]]

\* the (id, label, type) triples of the nodes of g; an attribute a node
\* lacks reads as None
NodeTriples(g) ==
    {<<g.nodes[i].id, Get(g.nodes[i].data, "label"), Get(g.nodes[i].data, "type")>> :
        i \in 1..Len(g.nodes)}

\* C11: the snapshot build_from_document returns lists each node of the
\* graph once, with its label and type, and the edges of the graph as a
\* multiset of (source, target, type): the graph read back from the
\* snapshot has the same node ids, labels, types and edge multiset.
C11_SnapshotRoundTrip ==
    IsBuild =>
        LET back == FromJson(result)
        IN  /\ Len(back.nodes) = Len(graph.nodes)
            /\ Cardinality(NodeIds(back)) = Len(back.nodes)
            /\ NodeTriples(back) = NodeTriples(graph)
            /\ SameBag(back.edges, graph.edges)

\* a build with two edges, entity nodes and nodes the edges brought
C11_Witness ==
    /\ IsBuild
    /\ Len(result.links) >= 2
    /\ \E i, j \in 1..Len(result.nodes) :
          result.nodes[i].label = None /\ result.nodes[j].label = sA
    /\ SameBag(FromJson(result).edges, graph.edges)

-----------------------------------------------------------------------------
(* C12 *)

IsReset == call.op = "reset_graph"

\* C12: after reset_graph, stats() reports zero nodes, zero edges and an
\* empty by_type whatever the graph was, and a second reset_graph leaves
\* the graph as it is.
C12_ResetClearsGraph ==
    IsReset =>
        /\ stats(graph).nodes = 0
        /\ stats(graph).edges = 0
        /\ DOMAIN stats(graph).by_type = {}
        /\ to_json(graph, <<>>) = [nodes |-> <<>>, links |-> <<>>]
        /\ reset_graph(graph) = graph

\* reset_graph has returned on a graph that held nodes and edges
C12_Witness ==
    /\ IsReset
    /\ number_of_nodes(pre) >= 2
    /\ number_of_edges(pre) >= 1
    /\ stats(graph).nodes = 0

-----------------------------------------------------------------------------
(* C13 *)

\* the self-loops of g on the node c
SelfLoops(g, c) ==
    SelectSeq(g.edges, LAMBDA e : e.source = c /\ e.target = c)

\* C13: get_subgraph with depth 0 and an existing center returns the center
\* as its only node, and as links exactly the self-loops on the center.
C13_DepthZeroIsCenter ==
    (IsSubgraph /\ call.depth = 0 /\ Candidates # <<>>) =>
        /\ Len(result.nodes) = 1
        /\ result.nodes[1].id = Candidates[1].id
        /\ SameBag(result.links, SelfLoops(pre, Candidates[1].id))

\* a depth-0 call on a center with a self-loop and another edge
C13_Witness ==
    /\ IsSubgraph /\ call.depth = 0 /\ Candidates # <<>>
    /\ Len(result.links) = 1
    /\ Len(pre.edges) = 2
    /\ Ball(pre, Candidates[1].id, 1) # {Candidates[1].id}

-----------------------------------------------------------------------------
(* C14 *)

\* the largest undirected distance from c to a node reachable from c
RECURSIVE EccFrom(_, _, _)
EccFrom(g, c, k) ==
    IF Ball(g, c, k + 1) = Ball(g, c, k) THEN k ELSE EccFrom(g, c, k + 1)

Eccentricity(g, c) == EccFrom(g, c, 0)

\* C14: get_subgraph returns for every depth, and for a depth of at least
\* the largest undirected distance from the center to a node reachable from
\* it, the result is the one for that distance.
C14_SubgraphSaturates ==
    (IsSubgraph /\ Candidates # <<>>) =>
        LET ecc == Eccentricity(pre, Candidates[1].id)
        IN  /\ DOMAIN result = {"nodes", "links"}
            /\ call.depth >= ecc =>
                  result = get_subgraph(pre, call.center_node_label,
                                        call.node_type, ecc)

\* a call whose depth exceeds the distance to the farthest node, which is
\* not the center itself
C14_Witness ==
    /\ IsSubgraph /\ Candidates # <<>>
    /\ Eccentricity(pre, Candidates[1].id) >= 1
    /\ call.depth > Eccentricity(pre, Candidates[1].id)
    /\ Len(result.nodes) >= 2

-----------------------------------------------------------------------------
(* C15 *)

\* the ids of the nodes of g that carry the label and, if a type is given,
\* the type
Matching(g, label, type) ==
    {g.nodes[i].id :
        i \in {j \in 1..Len(g.nodes) :
                 /\ "label" \in DOMAIN g.nodes[j].data
                 /\ g.nodes[j].data.label = label
                 /\ type # None =>
                       /\ "type" \in DOMAIN g.nodes[j].data
                       /\ g.nodes[j].data.type = type}}

\* C15: get_subgraph leaves the graph as it is; it returns the empty
\* snapshot exactly when no node carries the label (and the type, when one
\* is given); otherwise the center, which the result holds, is one of the
\* matching nodes.
C15_EmptySnapshotIffNoMatch ==
    IsSubgraph =>
        LET match == Matching(pre, call.center_node_label, call.node_type)
        IN  /\ graph = pre
            /\ (result = [nodes |-> <<>>, links |-> <<>>]) <=> (match = {})
            /\ match # {} =>
                  /\ Candidates[1].id \in match
                  /\ Candidates[1].id \in ResultIds

\* the label is in the graph, but under another type than the one asked for
C15_Witness ==
    /\ IsSubgraph
    /\ call.node_type # None
    /\ Matching(pre, call.center_node_label, None) # {}
    /\ Matching(pre, call.center_node_label, call.node_type) = {}
    /\ result = [nodes |-> <<>>, links |-> <<>>]

-----------------------------------------------------------------------------
(* C16 *)

IsAddRelations == call.op = "add_relations"

\* the edges the tuples of relations name, in order
TupleEdges(relations) ==
    [i \in 1..Len(relations) |->
        [source |-> relations[i][1], target |-> relations[i][2],
         type |-> relations[i][3]]]

\* C16: add_relations appends one edge per tuple, whether or not the
\* endpoints are nodes and whether or not the edge is there already: the
\* edge count grows by the number of tuples and the earlier edges stay.
C16_OneEdgePerTuple ==
    IsAddRelations =>
        /\ stats(graph).edges = stats(pre).edges + Len(call.relations)
        /\ SubSeq(graph.edges, 1, Len(pre.edges)) = pre.edges
        /\ SameBag(graph.edges, pre.edges \o TupleEdges(call.relations))

\* the same tuple twice, with an endpoint that was no node: parallel edges
C16_Witness ==
    /\ IsAddRelations
    /\ Len(call.relations) = 2
    /\ call.relations[1] = call.relations[2]
    /\ ~has_node(pre, call.relations[1][2])
    /\ graph.edges[Len(graph.edges)] = graph.edges[Len(graph.edges) - 1]

-----------------------------------------------------------------------------
(* C17 *)

\* the attributes the claim gives the node of the record r
ExpectedData(r) ==
    [label |-> DisplayText(r.item),
     type  |-> r.type,
     meta  |-> [f \in DOMAIN r.item \ {"text", "name"} |-> r.item[f]]]

\* the id add_entities looks the record r up under
RecordId(r) == _node_id(DisplayText(r.item), r.type)

\* C17: a record with a display text whose id is no node yet, neither
\* before the call nor from an earlier record of it, gets a node with
\* label = the display text, type = the mapping key and meta = the fields
\* of the record other than text and name.
C17_NewNodeAttributes ==
    (IsAdd \/ IsBuild) =>
        LET base == Base
            recs == NamedRecords
        IN  \A i \in 1..Len(recs) :
                (/\ ~has_node(base, RecordId(recs[i]))
                 /\ \A j \in 1..(i - 1) : RecordId(recs[j]) # RecordId(recs[i]))
                => /\ has_node(graph, RecordId(recs[i]))
                   /\ NodeData(graph, RecordId(recs[i])) = ExpectedData(recs[i])

\* a new node whose label comes from name and whose meta is not empty
C17_Witness ==
    /\ IsBuild
    /\ \E i \in 1..Len(NamedRecords) :
          /\ "text" \notin DOMAIN NamedRecords[i].item
          /\ NodeData(graph, RecordId(NamedRecords[i]))
               = [label |-> sB, type |-> NamedRecords[i].type,
                  meta |-> [confidence |-> 2]]

-----------------------------------------------------------------------------
(* C18 *)

\* the records of the call without a display text
NamelessRecords ==
    SelectSeq(Flatten(call.entities), LAMBDA r : DisplayText(r.item) = <<>>)

\* C18: add_entities passes over a record with neither text nor name: no
\* labelled node appears but for a record with a display text, the node
\* count grows by the new ids of those records only, and every record with
\* a display text has its node.
C18_NamelessRecordsSkipped ==
    (IsAdd \/ IsBuild) =>
        LET base == Base
            recs == NamedRecords
            ids  == {RecordId(recs[i]) : i \in 1..Len(recs)}
        IN  /\ LabelledIds(graph) \ LabelledIds(base) \subseteq ids
            /\ ids \subseteq NodeIds(graph)
            /\ IsAdd => number_of_nodes(graph)
                          = number_of_nodes(pre) + Cardinality(ids \ NodeIds(pre))

\* add_entities met a record without text and name, then inserted the next
C18_Witness ==
    /\ IsAdd
    /\ NamelessRecords # <<>>
    /\ DisplayText(Flatten(call.entities)[1].item) = <<>>
    /\ number_of_nodes(graph) = number_of_nodes(pre) + 1

-----------------------------------------------------------------------------
(* C19 *)

IsRequest == call.op = "build_knowledge_graph"

\* C19: a /knowledge-graph/build request that carries an entities mapping,
\* the empty mapping included, is served as a build: the shared graph is
\* rebuilt from the mapping and its snapshot {nodes, links} is returned.
C19_EntitiesRequestIsBuild ==
    (IsRequest /\ call.request.entities # <<>>) =>
        /\ graph = FreshBuild(call.request.entities[1])
        /\ result = to_json(FreshBuild(call.request.entities[1]), <<>>)

-----------------------------------------------------------------------------
(* C20 *)

\* C20: add_relations adds no node, also when a tuple names an id that is
\* no node: stats()["nodes"] and the node list of the snapshot are after the
\* call what they were before.
C20_AddRelationsAddsNoNode ==
    IsAddRelations =>
        /\ stats(graph).nodes = stats(pre).nodes
        /\ to_json(graph, <<>>).nodes = to_json(pre, <<>>).nodes

-----------------------------------------------------------------------------
(* C23 *)

\* C23: in every round of the expansion of get_subgraph the next frontier
\* is the set of nodes found for the first time in that round: it holds no
\* node of the result set accumulated so far.
C23_FrontierIsNewlyDiscovered ==
    (IsSubgraph /\ Candidates # <<>>) =>
        \A k \in 1..call.depth :
            LET c == Candidates[1].id
            IN  /\ frontier_at(pre, c, k) \cap nodes_at(pre, c, k - 1) = {}
                /\ frontier_at(pre, c, k)
                     = nodes_at(pre, c, k) \ nodes_at(pre, c, k - 1)

-----------------------------------------------------------------------------
(* C24 *)

\* every key of the mapping is one of cases, statutes, courts, parties, dates
PluralOnly(entities) ==
    \A i \in 1..Len(entities) :
        entities[i].k \in {Buckets[j] : j \in 1..Len(Buckets)}

\* no node of g that carries a label is the source or the target of an edge
NoLabelledEndpoint(g) ==
    \A i \in 1..Len(g.edges) :
        /\ g.edges[i].source \notin LabelledIds(g)
        /\ g.edges[i].target \notin LabelledIds(g)

\* C24: after build_from_document on a mapping with only the plural keys
\* no labelled node has an incident edge; and on a graph of that kind
\* get_subgraph returns at most one node and no link, at every depth.
C24_BuildLeavesEntitiesIsolated ==
    /\ (IsBuild /\ PluralOnly(call.entities)) => NoLabelledEndpoint(graph)
    /\ (IsSubgraph /\ NoLabelledEndpoint(pre)) =>
          /\ Len(result.nodes) <= 1
          /\ result.links = <<>>

\* get_subgraph of depth 2 finds its center in a graph with edges, and
\* returns the center alone
C24_Witness ==
    /\ IsSubgraph /\ call.depth = 2
    /\ NoLabelledEndpoint(pre)
    /\ number_of_edges(pre) >= 1
    /\ Len(result.nodes) = 1
    /\ result.links = <<>>

-----------------------------------------------------------------------------
(* C25 *)

\* C25: after add_entities every record of the call with a display text has
\* the node of its id, carrying label = the display text and type = the
\* mapping key, whatever ran on the graph before.
C25_EntityNodeCarriesLabel ==
    IsAdd =>
        \A i \in 1..Len(NamedRecords) :
            LET r == NamedRecords[i]
            IN  /\ has_node(graph, RecordId(r))
                /\ Get(NodeData(graph, RecordId(r)), "label") = DisplayText(r.item)
                /\ Get(NodeData(graph, RecordId(r)), "type") = r.type

-----------------------------------------------------------------------------
(* C26 *)

IsRead == call.op \in {"get_subgraph", "stats", "to_json"}

\* C26: get_subgraph (with or without a center), stats and to_json leave
\* the graph as it was: the same nodes with the same attributes and the
\* same edges.
C26_ReadsLeaveGraph ==
    IsRead =>
        /\ graph.nodes = pre.nodes
        /\ SameBag(graph.edges, pre.edges)

\* a get_subgraph that returned a part of a graph with more nodes and edges
C26_Witness ==
    /\ IsSubgraph
    /\ Len(result.nodes) >= 1
    /\ Len(result.nodes) < number_of_nodes(pre)
    /\ Len(result.links) < number_of_edges(pre)
    /\ graph = pre

-----------------------------------------------------------------------------
(* C27 *)

\* the type a node is counted under: its type, "unknown" when it has none
\* or an empty one
CountedType(n) ==
    IF "type" \in DOMAIN n.data /\ n.data.type # <<>> /\ n.data.type # None
    THEN n.data.type
    ELSE sUnknown

\* C27: by_type of stats() maps each type to the number of nodes that carry
\* it, the nodes with a missing or empty type counted under "unknown".
C27_ByTypeCounts ==
    (call = Idle \/ call.op = "stats") =>
        LET by_type == stats(graph).by_type
            types   == {CountedType(graph.nodes[i]) : i \in 1..Len(graph.nodes)}
        IN  /\ DOMAIN by_type = types
            /\ \A t \in types :
                  by_type[t] = Cardinality({i \in 1..Len(graph.nodes) :
                                              CountedType(graph.nodes[i]) = t})
            /\ call.op = "stats" => result.by_type = by_type

-----------------------------------------------------------------------------
(* C28 *)

\* the singular type infer_relations_from_entities uses for a bucket
Singular(key) ==
    CASE key = sCases    -> sCase
      [] key = sStatutes -> sStatute
      [] key = sCourts   -> sCourt
      [] key = sParties  -> sParty
      [] key = sDates    -> sDate

\* the ids that are a source or a target of the edges
Endpoints(edges) ==
    {edges[i].source : i \in 1..Len(edges)}
        \cup {edges[i].target : i \in 1..Len(edges)}

\* C28: when infer_relations_from_entities pairs a record that has neither
\* text nor name, the endpoint for that record is the type, a colon and
\* nothing else ("case:" for a case record).
C28_NamelessEndpointIsTypeColon ==
    (IsInfer \/ IsBuild) =>
        \A i \in 1..Len(NamelessRecords) :
            LET r == NamelessRecords[i]
            IN  (/\ r.type \in {Buckets[j] : j \in 1..Len(Buckets)}
                 /\ CrossProduct(call.entities) > 0)
                => (Singular(r.type) \o <<":">>) \in Endpoints(NewEdges)

-----------------------------------------------------------------------------
(* C29 *)

\* C29: for a negative depth get_subgraph runs no round: it returns what
\* depth 0 returns, never more, and leaves the graph as it is.
C29_NegativeDepthIsZeroRounds ==
    /\ (IsSubgraph /\ call.depth < 0) =>
          /\ result = get_subgraph(pre, call.center_node_label, call.node_type, 0)
          /\ Len(result.nodes) <= 1
          /\ graph = pre
    /\ (IsRequest /\ call.request.depth < 0) =>
          /\ result = get_subgraph(pre, call.request.center_node_label,
                                   call.request.node_type, 0)
          /\ graph = pre

\* a call of negative depth on a center that has a neighbour
C29_Witness ==
    /\ IsSubgraph /\ call.depth < 0 /\ Candidates # <<>>
    /\ Ball(pre, Candidates[1].id, 1) # {Candidates[1].id}
    /\ Len(result.nodes) = 1

-----------------------------------------------------------------------------
(* C30 *)

\* C30: to_json(g) serializes the graph g it is given, also when g has no
\* node (then it returns no nodes and no links); only to_json() serializes
\* the graph of the engine.
C30_SuppliedGraphIsSerialized ==
    /\ call.op = "to_json(g)" => result = to_json(call.g, <<>>)
    /\ call.op = "to_json" => result = to_json(graph, <<>>)

-----------------------------------------------------------------------------
(* Overlapping build_from_document calls on the one engine: each call is   *)
(* at one of the four statements of build_from_document, and the calls     *)
(* take their statements in any order.                                     *)

MaxTasks == 2    \* calls, or requests, that overlap

Tasks == 1..MaxTasks

\* (mutation: the first statement leaves the graph as it is)
build_step_no_reset(g, pc, entities) ==
    CASE pc = "reset_graph" -> g
      [] pc = "add_entities" -> add_entities(g, entities)
      [] pc = "infer_relations_from_entities" ->
             infer_relations_from_entities(g, entities)
      [] pc = "to_json" -> g

\* self.graph after the statement pc of build_from_document
build_step(g, pc, entities) ==
    CASE pc = "reset_graph" -> reset_graph(g)
      [] pc = "add_entities" -> add_entities(g, entities)
      [] pc = "infer_relations_from_entities" ->
             infer_relations_from_entities(g, entities)
      [] pc = "to_json" -> g

\* the statement after pc
next_pc(pc) ==
    CASE pc = "reset_graph" -> "add_entities"
      [] pc = "add_entities" -> "infer_relations_from_entities"
      [] pc = "infer_relations_from_entities" -> "to_json"
      [] pc = "to_json" -> "returned"

\* the entities of the overlapping calls
RaceInputs ==
    {CrossMapping(<<1, 1, 0, 0, 0>>),
     <<[k |-> sCases, v |-> <<rB>>]>>,
     <<[k |-> sCases, v |-> <<rA1>>]>>}

\* a call that has reset the graph and not yet taken its snapshot
InProgress(t) ==
    t.pc \in {"add_entities", "infer_relations_from_entities", "to_json"}

\* task p runs a statement that writes self.graph; every other call in
\* progress is marked as disturbed
RaceWrite(p) ==
    /\ tasks[p].pc \in {"reset_graph", "add_entities",
                        "infer_relations_from_entities"}
    /\ graph' = build_step(graph, tasks[p].pc, tasks[p].entities)
    /\ tasks' = [q \in Tasks |->
                   IF q = p
                   THEN [tasks[p] EXCEPT !.pc = next_pc(tasks[p].pc)]
                   ELSE [tasks[q] EXCEPT
                           !.disturbed = tasks[q].disturbed \/ InProgress(tasks[q])]]
    /\ UNCHANGED <<call, result, pre>>

\* task p runs `return self.to_json()`
RaceReturn(p) ==
    /\ tasks[p].pc = "to_json"
    /\ tasks' = [tasks EXCEPT ![p].pc = next_pc(tasks[p].pc),
                              ![p].snapshot = to_json(graph, <<>>)]
    /\ graph' = build_step(graph, tasks[p].pc, tasks[p].entities)
    /\ UNCHANGED <<call, result, pre>>

InitRace ==
    /\ graph = EmptyGraph
    /\ call = Idle
    /\ result = None
    /\ pre = EmptyGraph
    /\ tasks \in [Tasks -> {[pc |-> "reset_graph", entities |-> e,
                            snapshot |-> None, disturbed |-> FALSE] :
                               e \in RaceInputs}]

NextRace ==
    \/ \E p \in Tasks : RaceWrite(p)
    \/ \E p \in Tasks : RaceReturn(p)

SpecRace == InitRace /\ [][NextRace]_vars

-----------------------------------------------------------------------------
(* C21 *)

\* the snapshot of the entities of a call built alone
Alone(entities) == to_json(FreshBuild(entities), <<>>)

\* the ids a snapshot lists as nodes
SnapshotIds(snapshot) == {snapshot.nodes[i].id : i \in 1..Len(snapshot.nodes)}

\* C21: when build_from_document calls on one engine interleave between
\* their statements, a call can return a snapshot that is not the one of
\* its own entities built alone (C21_Witness reaches such a return), and it
\* does so only when another call wrote the graph between its reset_graph
\* and its to_json.
C21_RaceOnlyWhenInterleaved ==
    \A p \in Tasks :
        (tasks[p].pc = "returned" /\ tasks[p].snapshot # Alone(tasks[p].entities))
            => tasks[p].disturbed

\* a call has returned a snapshot that lacks a node of its own and lists a
\* node of the other call
C21_Witness ==
    \E p \in Tasks :
        /\ tasks[p].pc = "returned"
        /\ SnapshotIds(Alone(tasks[p].entities)) \ SnapshotIds(tasks[p].snapshot) # {}
        /\ SnapshotIds(tasks[p].snapshot) \ SnapshotIds(Alone(tasks[p].entities)) # {}

-----------------------------------------------------------------------------
(* The service: the handlers of POST /knowledge-graph/build and            *)
(* POST /pipeline/run are coroutines of one event loop on the one engine.  *)
(* call is the handler that holds the loop ([op |-> "idle"] when the loop  *)
(* is free); a handler keeps the loop from statement to statement until it *)
(* reaches an await.                                                       *)

\* (mutation: every statement gives the loop away)
yields_everywhere(pc) == TRUE

\* the statements at which a handler gives the loop to the other handlers:
\* the two awaits of run_full_pipeline, and the end of a handler;
\* build_knowledge_graph and build_from_document have no await
yields(pc) == pc \in {"get_document", "analyze_document", "returned"}

\* the `except Exception` branch of either handler
Http500 == [status_code |-> 500]

\* run_full_pipeline's return when the document is falsy
NotFound == [status |-> "error", detail |-> "Document not found"]

\* what `await self.document_processor.get_document(document_id)` can do: in
\* this tree DocumentProcessor defines no get_document, so the call raises;
\* the other two are the outcomes run_full_pipeline is written for
GetDocumentOutcomes == {"raises", "falsy", "document"}

\* analysis.get("entities", {}) after analyze_document returned: a mapping
\* of record lists, the empty mapping ({"error": ...} has no entities), or a
\* mapping of string lists as _extract_entities types it (strings = TRUE),
\* on whose items add_entities raises
AnalysisEntities ==
    {[entities |-> e, strings |-> FALSE] : e \in RaceInputs \cup {<<>>}}
    \cup {[entities |-> <<>>, strings |-> TRUE]}

\* the requests in flight: /knowledge-graph/build with and without
\* entities, and /pipeline/run
ServiceRequests ==
    {[kind |-> "build", pc |-> "if_entities", request |-> r] :
        r \in {Request(None, <<>>, None),
               Request(None, <<CrossMapping(<<1, 1, 0, 0, 0>>)>>, None),
               Request(None, <<<<[k |-> sCases, v |-> <<rB>>]>>>>, None)}}
    \cup {[kind |-> "pipeline", pc |-> "get_document",
           request |-> Request(sDoc, <<>>, None)]}

NewTask(r) ==
    [kind |-> r.kind, pc |-> r.pc, request |-> r.request, entities |-> <<>>,
     strings |-> FALSE, response |-> None, built |-> FALSE,
     overlapped |-> FALSE]

\* handler p may run its next statement
Holds(p) == call.op = "idle" \/ (call.op = "handler" /\ call.task = p)

\* the loop after handler p has moved to statement pc
Loop(p, pc) == IF yields(pc) THEN Idle ELSE [op |-> "handler", task |-> p]

\* a handler that has begun and not ended
Suspended(t) == t.pc \notin {"if_entities", "returned"}

\* `if request.entities:` of build_knowledge_graph, and the two branches
\* that read the graph
IfEntities(p) ==
    /\ Holds(p)
    /\ tasks[p].pc = "if_entities"
    /\ IF EntitiesTruthy(tasks[p].request.entities)
       THEN /\ tasks' = [tasks EXCEPT
                           ![p].pc = "reset_graph",
                           ![p].entities = tasks[p].request.entities[1]]
            /\ call' = Loop(p, "reset_graph")
       ELSE /\ tasks' = [tasks EXCEPT
                           ![p].pc = "returned",
                           ![p].response =
                               build_knowledge_graph(graph, tasks[p].request).result]
            /\ call' = Loop(p, "returned")
    /\ UNCHANGED <<graph, result, pre>>

\* `await self.document_processor.get_document(document_id)` completes
AwaitGetDocument(p) ==
    /\ Holds(p)
    /\ tasks[p].pc = "get_document"
    /\ \E o \in GetDocumentOutcomes :
         LET np == IF o = "document" THEN "analyze_document" ELSE "returned"
         IN  /\ tasks' = [tasks EXCEPT
                            ![p].pc = np,
                            ![p].response =
                                CASE o = "raises" -> Http500
                                  [] o = "falsy" -> NotFound
                                  [] o = "document" -> None]
             /\ call' = Loop(p, np)
    /\ UNCHANGED <<graph, result, pre>>

\* `await self.legal_analyzer.analyze_document(...)` completes, by raising
\* or with an analysis, and `entities = analysis.get("entities", {})`
AwaitAnalyzeDocument(p) ==
    /\ Holds(p)
    /\ tasks[p].pc = "analyze_document"
    /\ \/ /\ tasks' = [tasks EXCEPT ![p].pc = "returned",
                                    ![p].response = Http500]
          /\ call' = Loop(p, "returned")
       \/ \E a \in AnalysisEntities :
            /\ tasks' = [tasks EXCEPT ![p].pc = "reset_graph",
                                      ![p].entities = a.entities,
                                      ![p].strings = a.strings]
            /\ call' = Loop(p, "reset_graph")
    /\ UNCHANGED <<graph, result, pre>>

\* handler p runs a statement of build_from_document that writes the graph;
\* add_entities raises on string items, and the handler answers 500
BuildWrite(p) ==
    /\ Holds(p)
    /\ tasks[p].pc \in {"reset_graph", "add_entities",
                        "infer_relations_from_entities"}
    /\ LET raises == tasks[p].pc = "add_entities" /\ tasks[p].strings
           np == IF raises THEN "returned" ELSE next_pc(tasks[p].pc)
       IN  /\ graph' = IF raises THEN graph
                       ELSE build_step(graph, tasks[p].pc, tasks[p].entities)
           /\ tasks' = [q \in Tasks |->
                          IF q = p
                          THEN [tasks[p] EXCEPT
                                  !.pc = np,
                                  !.response = IF raises THEN Http500 ELSE @]
                          ELSE [tasks[q] EXCEPT
                                  !.overlapped = @ \/ Suspended(tasks[q])]]
           /\ call' = Loop(p, np)
    /\ UNCHANGED <<result, pre>>

\* handler p runs `return self.to_json()` and answers with the snapshot
BuildReturn(p) ==
    /\ Holds(p)
    /\ tasks[p].pc = "to_json"
    /\ tasks' = [tasks EXCEPT ![p].pc = "returned",
                              ![p].response = to_json(graph, <<>>),
                              ![p].built = TRUE]
    /\ call' = Loop(p, "returned")
    /\ UNCHANGED <<graph, result, pre>>

InitService ==
    /\ graph = EmptyGraph
    /\ call = Idle
    /\ result = None
    /\ pre = EmptyGraph
    /\ tasks \in [Tasks -> {NewTask(r) : r \in ServiceRequests}]

NextService ==
    \/ \E p \in Tasks : IfEntities(p)
    \/ \E p \in Tasks : AwaitGetDocument(p)
    \/ \E p \in Tasks : AwaitAnalyzeDocument(p)
    \/ \E p \in Tasks : BuildWrite(p)
    \/ \E p \in Tasks : BuildReturn(p)

SpecService == InitService /\ [][NextService]_vars

-----------------------------------------------------------------------------
(* C22 *)

\* C22: in the service, where handlers change places only at the awaits of
\* run_full_pipeline and build_from_document has none, every build, from
\* /knowledge-graph/build or from /pipeline/run and under every
\* interleaving of the requests, returns the snapshot a fresh engine gives
\* for the entities of its own request.
C22_ServiceBuildsAreAlone ==
    \A p \in Tasks :
        tasks[p].built => tasks[p].response = Alone(tasks[p].entities)

\* a pipeline request and another request have both built, for different
\* entities, and the other one wrote the graph while the pipeline request
\* was suspended at an await
C22_Witness ==
    \E p, q \in Tasks :
        /\ p # q
        /\ tasks[p].kind = "pipeline"
        /\ tasks[p].built /\ tasks[q].built
        /\ tasks[p].overlapped
        /\ tasks[p].entities # tasks[q].entities
        /\ tasks[p].response # tasks[q].response

====
